---- MODULE Spec2Model ----
(***************************************************************************)
(* A model of hexabot-helper-influxdb (InfluxdbHelper): the subject        *)
(* classifier, the event translators, the point builder of logEvent and    *)
(* the asynchronous write path with its hot-reloaded client.               *)
(*                                                                         *)
(* JavaScript strings that are data are sequences of one-character         *)
(* strings (so that the classifier's pattern can be run on them); map      *)
(* keys and metric names are TLA+ strings.                                 *)
(***************************************************************************)
EXTENDS Integers, Sequences, FiniteSets, TLC

VARIABLES
    cls,        \* the classifier harness: one getBlockSubject call
    tr,         \* the translator harness: the last hook and what it emitted
    store,      \* the settings store: the url and the token getSettings() reads
    conns,      \* the InfluxDB objects constructed so far, by identity
    client,     \* this.client: an index of conns, 0 while undefined
    boot,       \* where onApplicationBootstrap is
    reloads,    \* the url and token change handlers started so far
    calls       \* the logEvent calls started so far

vars == <<cls, tr, store, conns, client, boot, reloads, calls>>
sysvars == <<store, conns, client, boot, reloads, calls>>

(***************************************************************************)
(* Bounds of the model.                                                    *)
(***************************************************************************)
MaxNameLen == 3
MaxSubjects == 2
MaxNow == 3
MaxCalls == 2
MaxChanges == 2

(***************************************************************************)
(* Sequences over a set, up to a length.                                   *)
(***************************************************************************)
SeqUpTo(S, n) == UNION {[1..k -> S] : k \in 0..n}

(***************************************************************************)
(* The subject classifier: getBlockSubject.                                *)
(***************************************************************************)
\* The characters of block names and subjects: two letters and one pattern
\* metacharacter, "(" (which no ")" of this alphabet can close).
Alphabet == {"a", "b", "("}
Letters == {"a", "b"}

\* The strings a subjects setting is drawn from.
SubjectPool == {<<"a">>, <<"b">>, <<"a", "b">>, <<"b", "a">>, <<>>, <<"(">>, <<"a", "(">>}
DefaultPool == {<<"o">>, <<"a">>, <<>>}

\* subjects.join("|") of an empty list is "": the group is then "()", one
\* empty alternative.
Alternatives(subjects) == IF subjects = <<>> THEN << <<>> >> ELSE subjects

\* new RegExp(...) throws a SyntaxError (unterminated group) when a subject
\* brings an unclosed "(" into the pattern.
PatternValid(subjects) ==
    \A i \in 1..Len(subjects) : \A j \in 1..Len(subjects[i]) : subjects[i][j] /= "("

\* The alternative c matches the text s from (1-based) position p on.
MatchesAt(s, p, c) ==
    /\ p - 1 + Len(c) <= Len(s)
    /\ \A i \in 1..Len(c) : s[p - 1 + i] = c[i]

\* The positions at which some alternative matches.
MatchPositions(s, alts) ==
    {p \in 1..(Len(s) + 1) : \E i \in 1..Len(alts) : MatchesAt(s, p, alts[i])}

Max(S) == CHOOSE x \in S : \A y \in S : y <= x
Min(S) == CHOOSE x \in S : \A y \in S : x <= y

\* A lazy leading ".*?": the group matches at the first position.
LazyPosition(s, alts) == Min(MatchPositions(s, alts))

\* The leading ".*" is greedy: it takes the whole text and gives characters
\* back one at a time, so the group is first tried at the end of the text and
\* matches at the LAST position where an alternative matches.
GreedyPosition(s, alts) == Max(MatchPositions(s, alts))

\* At a position the alternatives are tried in the order of the setting.
FirstAlternativeAt(s, p, alts) ==
    alts[Min({i \in 1..Len(alts) : MatchesAt(s, p, alts[i])})]

\* blockName.replace(subjectsExp, (str, caught) => caught): with no line
\* break in the text, a match spans the whole text, which is replaced by the
\* group's capture; without a match the text is returned as it is.
ReplaceCaught(blockName, subjects) ==
    LET alts == Alternatives(subjects) IN
    IF MatchPositions(blockName, alts) = {}
    THEN blockName
    ELSE FirstAlternativeAt(blockName, GreedyPosition(blockName, alts), alts)

\* subjects.indexOf(subject) === -1
IndexOfIsMinusOne(subjects, subject) ==
    \A i \in 1..Len(subjects) : subjects[i] /= subject

\* The outcome of a call: the value returned, or a throw.
Returned(v) == [threw |-> FALSE, value |-> v]
Thrown == [threw |-> TRUE, value |-> <<>>]

getBlockSubject(blockName, subjects, default_subject) ==
    IF ~PatternValid(subjects)
    THEN Thrown
    ELSE LET subject == ReplaceCaught(blockName, subjects) IN
         IF IndexOfIsMinusOne(subjects, subject)
         THEN Returned(default_subject)
         ELSE Returned(subject)

(***************************************************************************)
(* JavaScript values: k is the value's kind; a number is the fraction n/d  *)
(* (the delays are quotients of integers).                                 *)
(***************************************************************************)
Undefined == [k |-> "undefined", s |-> <<>>, n |-> 0, d |-> 1, b |-> FALSE]
Null == [k |-> "null", s |-> <<>>, n |-> 0, d |-> 1, b |-> FALSE]
Str(s) == [k |-> "string", s |-> s, n |-> 0, d |-> 1, b |-> FALSE]
Rat(n, d) == [k |-> "number", s |-> <<>>, n |-> n, d |-> d, b |-> FALSE]
Num(n) == Rat(n, 1)
Bool(b) == [k |-> "boolean", s |-> <<>>, n |-> 0, d |-> 1, b |-> b]
\* A structured value (a payload object, an error object).
Obj == [k |-> "object", s |-> <<>>, n |-> 0, d |-> 1, b |-> FALSE]

\* !!v
Truthy(v) ==
    CASE v.k = "string" -> v.s /= <<>>
      [] v.k = "number" -> v.n /= 0
      [] v.k = "boolean" -> v.b
      [] v.k = "object" -> TRUE
      [] OTHER -> FALSE

\* a || b
OrElse(a, b) == IF Truthy(a) THEN a ELSE b

\* typeof v (typeof null is "object")
TypeOf(v) == IF v.k = "null" THEN "object" ELSE v.k

\* JSON.stringify(v): undefined for undefined, the text "null" for null, the
\* text of the object for a structured value.
JSONStringify(v) ==
    CASE v.k = "undefined" -> Undefined
      [] v.k = "null" -> Str(<<"n", "u", "l", "l">>)
      [] v.k = "object" -> Str(<<"{", "}">>)
      [] v.k = "boolean" -> Str(IF v.b THEN <<"t", "r", "u", "e">>
                                       ELSE <<"f", "a", "l", "s", "e">>)
      [] v.k = "number" -> Str(<<"#">>)
      [] OTHER -> Str(<<"\"">> \o v.s \o <<"\"">>)

\* {...f, ...g}: the keys of g override those of f.
Spread(f, g) ==
    [key \in (DOMAIN f) \cup (DOMAIN g) |-> IF key \in DOMAIN g THEN g[key] ELSE f[key]]

EmptyMap == [key \in {} |-> Undefined]

\* The literals of the helper.
UNKNOWN == <<"u", "n", "k", "n", "o", "w", "n">>
MESSAGE == <<"m", "e", "s", "s", "a", "g", "e">>
BLOCK == <<"b", "l", "o", "c", "k">>
PASSATION == <<"p", "a", "s", "s", "a", "t", "i", "o", "n">>
FALLBACK == <<"f", "a", "l", "l", "b", "a", "c", "k">>
INTERVENTION == <<"i", "n", "t", "e", "r", "v", "e", "n", "t", "i", "o", "n">>
PLUGIN == <<"p", "l", "u", "g", "i", "n">>

\* BotStatsType's members, as the helper reads them.
NEW_USERS == <<"n", "e", "w", "_", "u", "s", "e", "r", "s">>
RETURNING_USERS == <<"r", "e", "t", "u", "r", "n", "i", "n", "g", "_", "u", "s", "e", "r", "s">>
ALL_MESSAGES == <<"a", "l", "l", "_", "m", "e", "s", "s", "a", "g", "e", "s">>
POPULAR == <<"p", "o", "p", "u", "l", "a", "r">>

\* The settings of the helper (settings.ts), those the model reads.
GREETING == <<"G", "r", "e", "e", "t", "i", "n", "g">>
QUESTION == <<"Q", "u", "e", "s", "t", "i", "o", "n">>
HANDOVER == <<"H", "a", "n", "d", "o", "v", "e", "r">>
OTHER_SUBJECT == <<"O", "t", "h", "e", "r">>
DefaultSettings == [subjects |-> <<GREETING, QUESTION, HANDOVER>>,
                    default_subject |-> OTHER_SUBJECT]

(***************************************************************************)
(* The field and tag extractors.                                           *)
(***************************************************************************)
\* getLanguage(event): the value of the first "language" entity, else the
\* sender's language.
LanguageEntities(nlp) ==
    {i \in 1..Len(nlp.entities) : nlp.entities[i].entity = "language"}

getLanguage(event) ==
    LET nlp == event.nlp
        language == IF nlp.present /\ LanguageEntities(nlp) /= {}
                    THEN nlp.entities[Min(LanguageEntities(nlp))].value
                    ELSE Null
    IN IF ~Truthy(language) THEN event.sender.language ELSE language

\* The reduce of getMessageTags: the entities in order, a later one
\* overriding an earlier one of the same name.
RECURSIVE ReduceEntities(_, _)
ReduceEntities(entities, acc) ==
    IF entities = <<>>
    THEN acc
    ELSE LET a == Head(entities) IN
         ReduceEntities(Tail(entities),
            IF a.entity /= "" /\ Truthy(a.value) /\ a.entity /= "language"
            THEN Spread(acc, (a.entity :> a.value))
            ELSE acc)

getMessageTags(event) ==
    LET tagsMap == ("language" :> OrElse(getLanguage(event), Str(UNKNOWN))) IN
    IF event.nlp.present
    THEN ReduceEntities(event.nlp.entities, tagsMap)
    ELSE tagsMap

Field(type, value) == [type |-> type, value |-> value]

\* The first and the last name under each other's key.
getSubscriberFieldsSwapped(subscriber) ==
    ("recipient" :> Field("string", subscriber.id)) @@
    ("foreign_id" :> Field("string", subscriber.foreign_id)) @@
    ("first_name" :> Field("string", subscriber.last_name)) @@
    ("last_name" :> Field("string", subscriber.first_name))

getSubscriberFields(subscriber) ==
    ("recipient" :> Field("string", subscriber.id)) @@
    ("foreign_id" :> Field("string", subscriber.foreign_id)) @@
    ("first_name" :> Field("string", subscriber.first_name)) @@
    ("last_name" :> Field("string", subscriber.last_name))

\* slug(name, " ") (the slug package): letters in lower case, a blank kept as
\* the replacement, any other character dropped.
SlugChar(c) ==
    CASE c = "G" -> <<"g">>
      [] c = "Q" -> <<"q">>
      [] c = "H" -> <<"h">>
      [] c = "F" -> <<"f">>
      [] c = "R" -> <<"r">>
      [] c = "(" -> <<>>
      [] OTHER -> <<c>>

RECURSIVE slug(_)
slug(name) == IF name = <<>> THEN <<>> ELSE SlugChar(Head(name)) \o slug(Tail(name))

\* getBlockFields(event | null, block, context?)
getBlockFields(event, block, context) ==
    LET payload == IF event.present THEN event.payload ELSE Null
        postback == IF TypeOf(payload) = "string" THEN payload
                    ELSE JSONStringify(payload)
    IN
    ("block" :> Field("string", Str(slug(block.name)))) @@
    ("postback" :> Field("string", postback)) @@
    ("attempt" :> Field("int", IF context.present /\ Truthy(context.attempt)
                               THEN context.attempt ELSE Num(0))) @@
    ("start" :> Field("boolean", block.starts_conversation))

\* getPluginFields(extraFields)
PluginType(value) ==
    CASE TypeOf(value) = "string" -> "string"
      [] TypeOf(value) = "number" -> "float"
      [] TypeOf(value) = "boolean" -> "boolean"
      [] TypeOf(value) = "object" -> "string"
      [] OTHER -> ""

getPluginFields(extraFields) ==
    [key \in {x \in DOMAIN extraFields : PluginType(extraFields[x]) /= ""} |->
        Field(PluginType(extraFields[key]),
              IF TypeOf(extraFields[key]) = "object"
              THEN JSONStringify(extraFields[key])
              ELSE extraFields[key])]

(***************************************************************************)
(* logEvent's point: the primary value under "value", then every field and *)
(* every tag whose value is truthy.                                        *)
(***************************************************************************)
Args(name, value, tags, fields) ==
    [name |-> name, value |-> value, tags |-> tags, fields |-> fields]

\* A filter that drops the absent values only (value != null).
PresentFields(fields) ==
    [key \in {x \in DOMAIN fields : fields[x].value.k \notin {"undefined", "null"}} |->
        fields[key]]

TruthyFields(fields) ==
    [key \in {x \in DOMAIN fields : Truthy(fields[x].value)} |-> fields[key]]

TruthyTags(tags) ==
    [key \in {x \in DOMAIN tags : Truthy(tags[x])} |-> tags[key]]

BuildPoint(args) ==
    [name |-> args.name,
     fields |-> Spread(("value" :> Field("float", args.value)), TruthyFields(args.fields)),
     tags |-> TruthyTags(args.tags)]

(***************************************************************************)
(* The event translators: each gives the arguments of its logEvent call.   *)
(***************************************************************************)
\* event._handler.getName() || "unknown"
EventChannel(event) == OrElse(event.handlerName, Str(UNKNOWN))

\* subscriber.channel && subscriber.channel.name
SubscriberChannel(subscriber) ==
    IF subscriber.channel.present THEN subscriber.channel.name ELSE Undefined

logMessageSentEvent(event) ==
    Args("Event - message sent", Num(1),
         Spread(getMessageTags(event),
                ("channel" :> EventChannel(event)) @@ ("type" :> Str(MESSAGE))),
         getSubscriberFields(event.sender))

logMessageReceivedEvent(event) ==
    Args("Event - message received", Num(1),
         Spread(getMessageTags(event),
                ("channel" :> EventChannel(event)) @@ ("type" :> Str(MESSAGE))),
         getSubscriberFields(event.sender))

\* logBlockEvent once getBlockSubject has returned subject.
logBlockEvent(event, block, context, subject) ==
    Args("Block", Num(1),
         Spread(getMessageTags(event),
                ("channel" :> EventChannel(event)) @@ ("type" :> Str(BLOCK)) @@
                ("subject" :> Str(subject))),
         Spread(getSubscriberFields(event.sender),
                getBlockFields(event, block, context)))

logHandoverEvent(subscriber, isHandover) ==
    Args(IF isHandover THEN "Handover" ELSE "Handback", Num(1),
         ("channel" :> SubscriberChannel(subscriber)) @@ ("type" :> Str(PASSATION)),
         getSubscriberFields(subscriber))

\* block.present is FALSE for the global fallback (no block is passed).
logFallbackEvent(event, block, context) ==
    Args(IF block.present THEN "Local Fallback" ELSE "Global Fallback", Num(1),
         Spread(getMessageTags(event),
                ("channel" :> EventChannel(event)) @@ ("type" :> Str(FALLBACK))),
         Spread(getSubscriberFields(event.sender),
                IF block.present THEN getBlockFields(event, block, context)
                ELSE EmptyMap))

\* Date.prototype.toString() of the time t (epoch milliseconds).
DigitChar(n) ==
    CASE n = 0 -> "0" [] n = 1 -> "1" [] n = 2 -> "2" [] n = 3 -> "3"
      [] n = 4 -> "4" [] n = 5 -> "5" [] n = 6 -> "6" [] n = 7 -> "7"
      [] n = 8 -> "8" [] OTHER -> "9"

DateToString(t) ==
    Str(IF t < 0 THEN <<"T", "-", DigitChar((0 - t) % 10)>> ELSE <<"T", DigitChar(t % 10)>>)

\* Math.abs
Abs(x) == IF x < 0 THEN 0 - x ELSE x

\* The guard of logInterventionEvent: subscriber.assignedAt &&
\* subscriber.assignedAt.getTime() > 0.
WasAssigned(subscriber) ==
    subscriber.assignedAt.present /\ subscriber.assignedAt.time > 0

\* The minutes divided once more, as the hours are.
DelayMinAsHours(delay) == Rat(delay, 60 * 60 * 1000)

\* The delay field of the intervention point in minutes: delay / (60 * 1000).
DelayMin(delay) == Rat(delay, 60 * 1000)

\* The body of logInterventionEvent under its guard; now is new Date().
InterventionArgs(subscriber, now) ==
    LET assigned == subscriber.assignedAt.time
        delay == Abs(now - assigned)
    IN Args("Intervention Opened", Rat(delay, 60 * 1000),
            ("channel" :> SubscriberChannel(subscriber)) @@
            ("type" :> Str(INTERVENTION)),
            Spread(getSubscriberFields(subscriber),
                ("assigned_at" :> Field("string", DateToString(assigned))) @@
                ("assigned_at_ts" :> Field("int", Num(assigned))) @@
                ("intervention_opened_at" :> Field("string", DateToString(now))) @@
                ("intervention_opened_at_ts" :> Field("int", Num(now))) @@
                ("intervention_delay_sec" :> Field("float", Rat(delay, 1000))) @@
                ("intervention_delay_min" :> Field("float", DelayMin(delay))) @@
                ("intervention_delay_hour" :> Field("float", Rat(delay, 60 * 60 * 1000)))))

\* The logEvent calls of logInterventionEvent: one, or none.
logInterventionEvent(subscriber, now) ==
    IF WasAssigned(subscriber) THEN <<InterventionArgs(subscriber, now)>> ELSE <<>>

\* logPluginEvent(pluginTitle, block, context, extraFields)
logPluginEvent(pluginTitle, block, context, extraFields) ==
    Args("Plugin", Num(1),
         ("channel" :> OrElse(context.channel, Str(UNKNOWN))) @@
         ("type" :> Str(PLUGIN)),
         Spread(Spread(Spread(getSubscriberFields(context.user),
                              getBlockFields([present |-> FALSE], block, context)),
                       ("plugin" :> Field("string", pluginTitle))),
                getPluginFields(extraFields)))

\* logStatEvent(type, name, subscriber)
logStatEvent(type, name, subscriber) ==
    Args("Stats", Num(1),
         ("channel" :> SubscriberChannel(subscriber)) @@
         ("name" :> name) @@ ("type" :> Str(type)),
         getSubscriberFields(subscriber))

(***************************************************************************)
(* The hooks: the presence check of each handler, then its translator. A   *)
(* hook gives the logEvent calls it makes (one or none); an absent         *)
(* argument is a record whose present is FALSE.                            *)
(***************************************************************************)
handleMessageSent(event) ==
    IF event.present THEN <<logMessageSentEvent(event)>> ELSE <<>>

handleMessageReceived(event) ==
    IF event.present THEN <<logMessageReceivedEvent(event)>> ELSE <<>>

\* if (event && block && block.name)
BlockTriggerChecked(block, event) ==
    event.present /\ block.present /\ block.name /= <<>>

handleHandover(subscriber, isHandover) ==
    IF subscriber.present THEN <<logHandoverEvent(subscriber, isHandover)>> ELSE <<>>

handleGlobalFallback(event) ==
    IF event.present
    THEN <<logFallbackEvent(event, [present |-> FALSE], [present |-> FALSE])>>
    ELSE <<>>

handleLocalFallback(block, event, context) ==
    IF event.present THEN <<logFallbackEvent(event, block, context)>> ELSE <<>>

handleNewIntervention(subscriber, now) ==
    IF subscriber.present THEN logInterventionEvent(subscriber, now) ELSE <<>>

\* A switch whose every case logs.
IsLoggedStatAlways(type) == TRUE

\* The switch of handleStatEntry.
IsLoggedStat(type) == type \in {NEW_USERS, RETURNING_USERS}

handleStatEntry(type, name, subscriber) ==
    IF IsLoggedStat(type) /\ subscriber.present
    THEN <<logStatEvent(type, name, subscriber)>>
    ELSE <<>>

(***************************************************************************)
(* The classifier harness: the settings and the block name are drawn from  *)
(* the bounded sets, then getBlockSubject is called once.                  *)
(***************************************************************************)
ClsIdle == [pc |-> "idle", blockName |-> <<>>, subjects |-> <<>>,
            default_subject |-> <<>>, result |-> Thrown]

ClassifyStart ==
    /\ cls.pc = "idle"
    /\ \E b \in SeqUpTo(Alphabet, MaxNameLen) :
       \E s \in SeqUpTo(SubjectPool, MaxSubjects) :
       \E d \in DefaultPool :
          cls' = [pc |-> "called", blockName |-> b, subjects |-> s,
                  default_subject |-> d, result |-> Thrown]
    /\ UNCHANGED <<tr, sysvars>>

ClassifyReturn ==
    /\ cls.pc = "called"
    /\ cls' = [cls EXCEPT !.pc = "done",
                 !.result = getBlockSubject(cls.blockName, cls.subjects,
                                            cls.default_subject)]
    /\ UNCHANGED <<tr, sysvars>>

(***************************************************************************)
(* The helper after construction: no client yet, the settings at the       *)
(* values of settings.ts.                                                  *)
(***************************************************************************)
Urls == {"http://influxdb:8086/", "http://influxdb-2:8086/"}
Tokens == {"mytoken", "othertoken"}

SysInit ==
    /\ store = [url |-> "http://influxdb:8086/", token |-> "mytoken"]
    /\ conns = <<>>
    /\ client = 0
    /\ boot = "start"
    /\ reloads = <<>>
    /\ calls = <<>>

(***************************************************************************)
(* The inputs of the hooks.                                                *)
(***************************************************************************)
Absent == [present |-> FALSE]

\* What an identity attribute of a subscriber may hold.
AttrPool == {Str(<<"x">>), Str(<<>>), Null}

Identities == [id : AttrPool, foreign_id : AttrPool,
               first_name : AttrPool, last_name : AttrPool]

\* Two identities for the hooks whose translation does not read them apart.
FullIdentity == [id |-> Str(<<"x">>), foreign_id |-> Str(<<"x">>),
                 first_name |-> Str(<<"x">>), last_name |-> Str(<<"x">>)]
PartIdentity == [id |-> Str(<<"x">>), foreign_id |-> Null,
                 first_name |-> Str(<<>>), last_name |-> Str(<<"x">>)]

ChannelPool == {Absent,
                [present |-> TRUE, name |-> Str(<<"w", "e", "b">>)],
                [present |-> TRUE, name |-> Undefined]}

\* assignedAt: none, or a Date at a time of -1..MaxNow.
AssignedPool == {Absent} \cup {[present |-> TRUE, time |-> t] : t \in -1..MaxNow}

Subscriber(identity, language, channel, assignedAt) ==
    [present |-> TRUE, id |-> identity.id, foreign_id |-> identity.foreign_id,
     first_name |-> identity.first_name, last_name |-> identity.last_name,
     language |-> language, channel |-> channel, assignedAt |-> assignedAt]

LanguagePool == {Null, Str(<<"e", "n">>)}

\* The senders of channel events.
Senders ==
    {Subscriber(i, l, Absent, Absent) :
        i \in {FullIdentity, PartIdentity}, l \in LanguagePool}

\* The subscribers of the handover, intervention and stat hooks.
Subscribers ==
    {Subscriber(i, Null, c, a) :
        i \in {FullIdentity, PartIdentity}, c \in ChannelPool, a \in AssignedPool}

Entity(entity, value) == [entity |-> entity, value |-> value]

\* event.getNLP(): nothing, or the entities found.
NlpPool ==
    {[present |-> FALSE, entities |-> <<>>],
     [present |-> TRUE, entities |-> <<>>],
     [present |-> TRUE, entities |-> <<Entity("language", Str(<<"f", "r">>))>>],
     [present |-> TRUE, entities |-> <<Entity("language", Str(<<>>)),
                                       Entity("intent", Str(<<"b", "u", "y">>))>>],
     [present |-> TRUE, entities |-> <<Entity("subject", Str(<<"n", "l", "p">>)),
                                       Entity("", Str(<<"v">>))>>],
     [present |-> TRUE, entities |-> <<Entity("channel", Str(<<"n", "l", "p">>)),
                                       Entity("intent", Str(<<>>))>>]}

PayloadPool == {Str(<<"p">>), Str(<<>>), Obj, Undefined}

Events ==
    {[present |-> TRUE, sender |-> s, nlp |-> n, handlerName |-> h, payload |-> p] :
        s \in Senders, n \in NlpPool, h \in {Str(<<"w", "e", "b">>), Undefined},
        p \in PayloadPool}

FLOW == <<" ", "F", "l", "o", "w">>

Blocks ==
    {[present |-> TRUE, name |-> n, starts_conversation |-> s] :
        n \in {GREETING \o FLOW, <<"R">> \o FLOW, GREETING \o <<" ">> \o QUESTION},
        s \in {Bool(TRUE), Bool(FALSE)}}

\* A block with no name, which handleBlockTrigger skips.
Unnamed == [present |-> TRUE, name |-> <<>>, starts_conversation |-> Bool(FALSE)]

\* The contexts of a block (their channel is read by logPluginEvent alone).
Contexts(users, channels) ==
    {[present |-> TRUE, attempt |-> a, channel |-> c,
      user |-> Subscriber(u, Null, Absent, Absent)] :
        a \in {Undefined, Num(0), Num(2)}, c \in channels, u \in users}

\* The settings a block is classified under.
SettingsPool == {DefaultSettings,
                 [subjects |-> <<QUESTION>>, default_subject |-> <<>>],
                 [subjects |-> <<<<"(">>>>, default_subject |-> OTHER_SUBJECT]}

StatTypes == {NEW_USERS, RETURNING_USERS, ALL_MESSAGES, POPULAR}

\* The values of a tag or of a field handed to logEvent.
ValuePool == {Str(<<"u">>), Str(<<>>), Num(0), Num(2), Bool(FALSE), Bool(TRUE),
              Null, Undefined}
FieldTypeOf(v) ==
    CASE v.k = "number" -> "int" [] v.k = "boolean" -> "boolean" [] OTHER -> "string"

(***************************************************************************)
(* The translator harness: one hook (or one call of the public logEvent    *)
(* and logPluginEvent) on inputs drawn from the sets above, run to the     *)
(* point it builds, with the settings read and the sink answering.         *)
(***************************************************************************)
TrIdle == [pc |-> "idle", hook |-> "", input |-> Absent, calls |-> <<>>,
           points |-> <<>>, threw |-> FALSE]

\* The points of the logEvent calls, in order.
PointsOf(made) == [i \in 1..Len(made) |-> BuildPoint(made[i])]

Translated(hook, input, made) ==
    [pc |-> "done", hook |-> hook, input |-> input, calls |-> made,
     points |-> PointsOf(made), threw |-> FALSE]

TrMessageSent ==
    /\ tr.pc = "idle"
    /\ \E event \in Events \cup {Absent} :
          tr' = Translated("sent", [event |-> event], handleMessageSent(event))
    /\ UNCHANGED <<cls, sysvars>>

TrMessageReceived ==
    /\ tr.pc = "idle"
    /\ \E event \in Events \cup {Absent} :
          tr' = Translated("received", [event |-> event], handleMessageReceived(event))
    /\ UNCHANGED <<cls, sysvars>>

\* handleBlockTrigger with logBlockEvent and its getBlockSubject: a throw of
\* the classifier rejects logBlockEvent before logEvent is called.
TrBlockTrigger ==
    /\ tr.pc = "idle"
    /\ \E event \in Events \cup {Absent} :
       \E block \in Blocks \cup {Unnamed, Absent} :
       \E context \in Contexts({FullIdentity}, {Undefined}) \cup {Absent} :
       \E settings \in SettingsPool :
          LET input == [event |-> event, block |-> block, context |-> context,
                        settings |-> settings]
              subject == getBlockSubject(block.name, settings.subjects,
                                         settings.default_subject)
          IN
          IF ~BlockTriggerChecked(block, event)
          THEN tr' = Translated("block", input, <<>>)
          ELSE IF subject.threw
          THEN tr' = [Translated("block", input, <<>>) EXCEPT !.threw = TRUE]
          ELSE tr' = Translated("block", input,
                        <<logBlockEvent(event, block, context, subject.value)>>)
    /\ UNCHANGED <<cls, sysvars>>

TrHandover ==
    /\ tr.pc = "idle"
    /\ \E identity \in Identities :
       \E channel \in ChannelPool :
       \E isHandover \in BOOLEAN :
       \E given \in BOOLEAN :
          LET subscriber == IF given THEN Subscriber(identity, Null, channel, Absent)
                            ELSE Absent
          IN tr' = Translated("passation",
                      [subscriber |-> subscriber, isHandover |-> isHandover],
                      handleHandover(subscriber, isHandover))
    /\ UNCHANGED <<cls, sysvars>>

TrGlobalFallback ==
    /\ tr.pc = "idle"
    /\ \E event \in Events \cup {Absent} :
          tr' = Translated("fallback-global", [event |-> event],
                           handleGlobalFallback(event))
    /\ UNCHANGED <<cls, sysvars>>

TrLocalFallback ==
    /\ tr.pc = "idle"
    /\ \E event \in Events \cup {Absent} :
       \E block \in Blocks \cup {Absent} :
       \E context \in Contexts({FullIdentity}, {Undefined}) \cup {Absent} :
          tr' = Translated("fallback-local",
                   [event |-> event, block |-> block, context |-> context],
                   handleLocalFallback(block, event, context))
    /\ UNCHANGED <<cls, sysvars>>

TrNewIntervention ==
    /\ tr.pc = "idle"
    /\ \E subscriber \in Subscribers \cup {Absent} :
       \E now \in 1..MaxNow :
          tr' = Translated("intervention", [subscriber |-> subscriber, now |-> now],
                           handleNewIntervention(subscriber, now))
    /\ UNCHANGED <<cls, sysvars>>

TrStatEntry ==
    /\ tr.pc = "idle"
    /\ \E type \in StatTypes :
       \E subscriber \in Subscribers \cup {Absent} :
          LET name == Str(<<"N">>) IN
          tr' = Translated("stats",
                   [type |-> type, name |-> name, subscriber |-> subscriber],
                   handleStatEntry(type, name, subscriber))
    /\ UNCHANGED <<cls, sysvars>>

TrPlugin ==
    /\ tr.pc = "idle"
    /\ \E block \in Blocks :
       \E context \in Contexts({FullIdentity, PartIdentity},
                                 {Undefined, Str(<<"w", "e", "b">>)}) :
       \E extraFields \in [{"score", "value"} -> ValuePool \cup {Obj}] \cup {EmptyMap} :
          tr' = Translated("plugin",
                   [block |-> block, context |-> context, extraFields |-> extraFields],
                   <<logPluginEvent(Str(<<"t">>), block, context, extraFields)>>)
    /\ UNCHANGED <<cls, sysvars>>

\* A direct call of the public logEvent.
TrLogEvent ==
    /\ tr.pc = "idle"
    /\ \E value \in {Num(0), Num(1)} :
       \E tagValues \in [{"lang", "type"} -> ValuePool] :
       \E fieldValues \in [{"attempt", "value"} -> ValuePool] :
          LET fields == [key \in DOMAIN fieldValues |->
                            Field(FieldTypeOf(fieldValues[key]), fieldValues[key])]
              args == Args("X", value, tagValues, fields)
          IN tr' = Translated("logEvent", [args |-> args], <<args>>)
    /\ UNCHANGED <<cls, sysvars>>

\* The host delivers the next event: the handlers keep nothing of the last.
TrNextEvent ==
    /\ tr.pc = "done"
    /\ tr' = TrIdle
    /\ UNCHANGED <<cls, sysvars>>

InitTranslate == cls = ClsIdle /\ tr = TrIdle /\ SysInit

NextTranslate ==
    \/ TrMessageSent
    \/ TrMessageReceived
    \/ TrBlockTrigger
    \/ TrHandover
    \/ TrGlobalFallback
    \/ TrLocalFallback
    \/ TrNewIntervention
    \/ TrStatEntry
    \/ TrPlugin
    \/ TrLogEvent
    \/ TrNextEvent

SpecTranslate == InitTranslate /\ [][NextTranslate]_vars

InitClassify == cls = ClsIdle /\ tr = TrIdle /\ SysInit

NextClassify == ClassifyStart \/ ClassifyReturn

SpecClassify == InitClassify /\ [][NextClassify]_vars

(***************************************************************************)
(* The helper as it runs: the bootstrap, the two settings hooks, the       *)
(* eight event hooks and the asynchronous steps of logEvent.               *)
(*                                                                         *)
(* A handler runs to its first await inside one action (JavaScript runs a  *)
(* handler to completion between awaits); what follows an await is an      *)
(* action of its own, taken whenever the awaited promise settles.          *)
(***************************************************************************)
\* new InfluxDB({url, token})
NewInfluxDB(url, token) == [url |-> url, token |-> token]

\* this.client = new InfluxDB(...): a new object, the reference replaced.
InstallClient(url, token) ==
    /\ conns' = Append(conns, NewInfluxDB(url, token))
    /\ client' = Len(conns) + 1

\* onApplicationBootstrap, to its await of getSettings().
onApplicationBootstrap ==
    /\ boot = "start"
    /\ boot' = "awaiting"
    /\ UNCHANGED <<cls, tr, store, conns, client, reloads, calls>>

\* onApplicationBootstrap, from the settings on.
onApplicationBootstrapResume ==
    /\ boot = "awaiting"
    /\ boot' = "done"
    /\ InstallClient(store.url, store.token)
    /\ UNCHANGED <<cls, tr, store, reloads, calls>>

\* The url setting is saved and "hook:influxdb_helper:url" is emitted:
\* handleApiUrlChange(setting), to its await of getSettings().
handleApiUrlChange(value) ==
    /\ Len(reloads) < MaxChanges
    /\ value /= store.url
    /\ store' = [store EXCEPT !.url = value]
    /\ reloads' = Append(reloads, [kind |-> "url", value |-> value, pc |-> "awaiting"])
    /\ UNCHANGED <<cls, tr, conns, client, boot, calls>>

\* A reload that sets the url of the client in use instead of replacing it.
handleApiUrlChangeInPlace(r) ==
    /\ reloads[r].kind = "url"
    /\ reloads[r].pc = "awaiting"
    /\ IF client = 0
       THEN InstallClient(reloads[r].value, store.token)
       ELSE /\ conns' = [conns EXCEPT ![client].url = reloads[r].value,
                                      ![client].token = store.token]
            /\ client' = client
    /\ reloads' = [reloads EXCEPT ![r].pc = "done"]
    /\ UNCHANGED <<cls, tr, store, boot, calls>>

\* handleApiUrlChange, from the settings on.
handleApiUrlChangeResume(r) ==
    /\ reloads[r].kind = "url"
    /\ reloads[r].pc = "awaiting"
    /\ InstallClient(reloads[r].value, store.token)
    /\ reloads' = [reloads EXCEPT ![r].pc = "done"]
    /\ UNCHANGED <<cls, tr, store, boot, calls>>

\* The token setting is saved and "hook:influxdb_helper:token" is emitted:
\* handleApiTokenChange(setting), to its await of getSettings().
handleApiTokenChange(value) ==
    /\ Len(reloads) < MaxChanges
    /\ value /= store.token
    /\ store' = [store EXCEPT !.token = value]
    /\ reloads' = Append(reloads, [kind |-> "token", value |-> value, pc |-> "awaiting"])
    /\ UNCHANGED <<cls, tr, conns, client, boot, calls>>

\* handleApiTokenChange, from the settings on.
handleApiTokenChangeResume(r) ==
    /\ reloads[r].kind = "token"
    /\ reloads[r].pc = "awaiting"
    /\ InstallClient(store.url, reloads[r].value)
    /\ reloads' = [reloads EXCEPT ![r].pc = "done"]
    /\ UNCHANGED <<cls, tr, store, boot, calls>>

\* A logEvent call as the hook leaves it: suspended on getSettings(), its
\* promise dropped by the handler (no await, no catch). The handlers are not
\* async: the statement after the translator call is the end of the handler,
\* which has returned to the emitter when the call suspends.
NoPoint == [name |-> "", fields |-> EmptyMap, tags |-> EmptyMap]

NewCall(hook, args) ==
    [hook |-> hook, pc |-> "awaitSettings", args |-> args, input |-> Absent,
     iWrite |-> 0, point |-> NoPoint, closed |-> "", promise |-> "pending",
     logged |-> "", cause |-> "", handler |-> "returned"]

\* The calls once a handler has made the logEvent calls of made (one or none).
Started(hook, made) == calls \o [i \in 1..Len(made) |-> NewCall(hook, made[i])]

\* The handler runs to the suspension of its logEvent calls and returns.
Start(started) ==
    /\ Len(started) <= MaxCalls
    /\ calls' = started
    /\ UNCHANGED <<cls, tr, store, conns, client, boot, reloads>>

\* The events the host delivers while the helper runs.
SampleSender == Subscriber(PartIdentity, Str(<<"e", "n">>), Absent, Absent)
SampleEvent == [present |-> TRUE, sender |-> SampleSender,
                nlp |-> [present |-> FALSE, entities |-> <<>>],
                handlerName |-> Str(<<"w", "e", "b">>), payload |-> Str(<<"p">>)]
SampleBlock == [present |-> TRUE, name |-> GREETING \o FLOW,
                starts_conversation |-> Bool(TRUE)]
SampleSubscriber ==
    Subscriber(FullIdentity, Null, [present |-> TRUE, name |-> Str(<<"w", "e", "b">>)],
               [present |-> TRUE, time |-> 1])
\* The same subscriber with no channel recorded.
NoChannelSubscriber == [SampleSubscriber EXCEPT !.channel = Absent]

OnMessageSent ==
    \E event \in {SampleEvent} : Start(Started("sent", handleMessageSent(event)))

OnMessageReceived ==
    \E event \in {SampleEvent} : Start(Started("received", handleMessageReceived(event)))

\* handleBlockTrigger: logBlockEvent runs to its await of getBlockSubject,
\* which itself awaits getSettings().
OnBlockTrigger ==
    \E event \in {SampleEvent} :
    \E block \in {SampleBlock, Unnamed} :
       /\ BlockTriggerChecked(block, event)
       /\ Len(calls) < MaxCalls
       /\ calls' = Append(calls,
             [NewCall("block", Absent) EXCEPT
                 !.pc = "awaitSubject",
                 !.input = [event |-> event, block |-> block, context |-> Absent]])
       /\ UNCHANGED <<cls, tr, store, conns, client, boot, reloads>>

OnHandover ==
    \E subscriber \in {SampleSubscriber, NoChannelSubscriber} :
       Start(Started("passation", handleHandover(subscriber, TRUE)))

OnGlobalFallback ==
    \E event \in {SampleEvent} : Start(Started("fallback-global", handleGlobalFallback(event)))

OnLocalFallback ==
    \E event \in {SampleEvent} :
       Start(Started("fallback-local", handleLocalFallback(SampleBlock, event, Absent)))

OnNewIntervention ==
    \E subscriber \in {SampleSubscriber} :
       Start(Started("intervention", handleNewIntervention(subscriber, MaxNow)))

OnStatEntry ==
    \E type \in {NEW_USERS, ALL_MESSAGES} :
       Start(Started("stats", handleStatEntry(type, Str(<<"N">>), SampleSubscriber)))

\* A getSettings() a logEvent call (or its getBlockSubject) awaits rejects:
\* the await is outside logEvent's try, so the call's promise rejects.
getSettingsRejects(c) ==
    /\ calls[c].pc \in {"awaitSubject", "awaitSettings"}
    /\ calls' = [calls EXCEPT ![c].pc = "done", ![c].promise = "rejected",
                              ![c].cause = "settings"]
    /\ UNCHANGED <<cls, tr, store, conns, client, boot, reloads>>

\* logBlockEvent, from the subject on: the tags, the fields, then logEvent
\* to its await of getSettings().
logBlockEventResume(c) ==
    /\ calls[c].pc = "awaitSubject"
    /\ LET in == calls[c].input
           subject == getBlockSubject(in.block.name, DefaultSettings.subjects,
                                      DefaultSettings.default_subject)
       IN calls' = [calls EXCEPT
             ![c].pc = "awaitSettings",
             ![c].args = logBlockEvent(in.event, in.block, in.context, subject.value)]
    /\ UNCHANGED <<cls, tr, store, conns, client, boot, reloads>>

\* logEvent, from the settings to its await of iWrite.close(): getWriteApi
\* on the client of this moment (a TypeError while it is undefined, outside
\* the try), the point, writePoint.
logEventResume(c) ==
    /\ calls[c].pc = "awaitSettings"
    /\ IF client = 0
       THEN calls' = [calls EXCEPT ![c].pc = "done", ![c].promise = "rejected",
                                   ![c].cause = "client"]
       ELSE calls' = [calls EXCEPT ![c].pc = "awaitClose", ![c].iWrite = client,
                                   ![c].point = BuildPoint(calls[c].args)]
    /\ UNCHANGED <<cls, tr, store, conns, client, boot, reloads>>

\* iWrite.close() resolves: the debug line, the call's promise resolves.
logEventWritten(c) ==
    /\ calls[c].pc = "awaitClose"
    /\ calls' = [calls EXCEPT ![c].pc = "done", ![c].closed = "ok",
                              ![c].promise = "resolved", ![c].logged = "debug"]
    /\ UNCHANGED <<cls, tr, store, conns, client, boot, reloads>>

\* A catch that logs the error and throws it again.
logEventCatchRethrows(c) ==
    /\ calls[c].pc = "awaitClose"
    /\ calls' = [calls EXCEPT ![c].pc = "done", ![c].closed = "failed",
                              ![c].promise = "rejected", ![c].logged = "error",
                              ![c].cause = "sink"]
    /\ UNCHANGED <<cls, tr, store, conns, client, boot, reloads>>

\* iWrite.close() rejects: the catch logs the error and the call's promise
\* resolves (with undefined).
logEventCatch(c) ==
    /\ calls[c].pc = "awaitClose"
    /\ calls' = [calls EXCEPT ![c].pc = "done", ![c].closed = "failed",
                              ![c].promise = "resolved", ![c].logged = "error"]
    /\ UNCHANGED <<cls, tr, store, conns, client, boot, reloads>>

Init == cls = ClsIdle /\ tr = TrIdle /\ SysInit

Next ==
    \/ onApplicationBootstrap
    \/ onApplicationBootstrapResume
    \/ \E value \in Urls : handleApiUrlChange(value)
    \/ \E value \in Tokens : handleApiTokenChange(value)
    \/ \E r \in 1..Len(reloads) : handleApiUrlChangeResume(r)
    \/ \E r \in 1..Len(reloads) : handleApiTokenChangeResume(r)
    \/ OnMessageSent
    \/ OnMessageReceived
    \/ OnBlockTrigger
    \/ OnHandover
    \/ OnGlobalFallback
    \/ OnLocalFallback
    \/ OnNewIntervention
    \/ OnStatEntry
    \/ \E c \in 1..Len(calls) : getSettingsRejects(c)
    \/ \E c \in 1..Len(calls) : logBlockEventResume(c)
    \/ \E c \in 1..Len(calls) : logEventResume(c)
    \/ \E c \in 1..Len(calls) : logEventWritten(c)
    \/ \E c \in 1..Len(calls) : logEventCatch(c)

Spec == Init /\ [][Next]_vars

(***************************************************************************)
(* C1. Isolation: a call whose sink write failed has logged the error and  *)
(* its promise is resolved, not rejected; the step that fails a write      *)
(* changes nothing but that call (no client, no setting, no other call);   *)
(* and whenever the settings read of a call resolves with a client         *)
(* installed, whatever became of the earlier calls, the call submits       *)
(* exactly the point of its own arguments on the client of that moment.    *)
(***************************************************************************)
C1_FailureIsLogged ==
    \A c \in 1..Len(calls) :
        calls[c].closed = "failed" =>
            /\ calls[c].promise = "resolved"
            /\ calls[c].logged = "error"
            /\ calls[c].point = BuildPoint(calls[c].args)

C1_FailureLeavesNothing ==
    \A c \in 1..Len(calls) :
        (calls[c].pc = "awaitClose" /\ calls'[c].closed = "failed") =>
            /\ UNCHANGED <<store, conns, client, boot, reloads>>
            /\ Len(calls') = Len(calls)
            /\ \A o \in 1..Len(calls) : o /= c => calls'[o] = calls[o]

C1_LaterIsSubmitted ==
    \A c \in 1..Len(calls) :
        (/\ calls[c].pc = "awaitSettings"
         /\ calls'[c].pc /= "awaitSettings"
         /\ calls'[c].cause /= "settings"
         /\ client /= 0) =>
            /\ calls'[c].pc = "awaitClose"
            /\ calls'[c].iWrite = client
            /\ calls'[c].point = BuildPoint(calls[c].args)

C2_NeverFatal ==
    \A c \in 1..Len(calls) :
        ~(calls[c].promise = "rejected" /\ calls[c].cause = "settings")

(***************************************************************************)
(* C3. No torn reads: an InfluxDB object, once constructed, keeps the url  *)
(* and the token it was constructed with (a reload installs a new object); *)
(* a call keeps the connection it took for its write until it is done; and *)
(* that connection is one of the constructed objects.                      *)
(***************************************************************************)
C3_ObjectsAreImmutable ==
    \A id \in 1..Len(conns) : id <= Len(conns') /\ conns'[id] = conns[id]

C3_WriteKeepsItsConnection ==
    \A c \in 1..Len(calls) :
        calls[c].iWrite /= 0 => calls'[c].iWrite = calls[c].iWrite

C3_WriterHoldsAnObject ==
    \A c \in 1..Len(calls) :
        calls[c].pc = "awaitClose" => calls[c].iWrite \in 1..Len(conns)

\* C3: a write uses one connection object from getWriteApi to close, and
\* that object's url and token never change after it is constructed.
C3_NoTornReads ==
    /\ []C3_WriterHoldsAnObject
    /\ [][C3_ObjectsAreImmutable /\ C3_WriteKeepsItsConnection]_vars

\* A write in progress on the connection it took, while a reload has
\* installed another client.
C3_Witness ==
    \E c \in 1..Len(calls) : \E r \in 1..Len(reloads) :
        /\ calls[c].pc = "awaitClose"
        /\ reloads[r].pc = "done"
        /\ calls[c].iWrite /= client
        /\ conns[calls[c].iWrite] /= conns[client]

(***************************************************************************)
(* C4. getBlockSubject returns, for every block name and every rule set,   *)
(* one of the configured subjects or the default subject, and never ends   *)
(* in an error.                                                            *)
(***************************************************************************)
SubjectsOf(subjects) == {subjects[i] : i \in 1..Len(subjects)}

\* C4: getBlockSubject returns a configured subject or the default subject,
\* and never throws, whatever the candidate list.
C4_SubjectIsConfigured ==
    cls.pc = "done" =>
        /\ ~cls.result.threw
        /\ cls.result.value \in SubjectsOf(cls.subjects) \cup {cls.default_subject}

(***************************************************************************)
(* C5. For well-formed configurations (non-empty subjects of letters).     *)
(***************************************************************************)
WellFormed(subjects) ==
    \A i \in 1..Len(subjects) :
        /\ subjects[i] /= <<>>
        /\ \A j \in 1..Len(subjects[i]) : subjects[i][j] \in Letters

\* The positions of the text s at which c occurs.
Occurrences(c, s) == {p \in 1..(Len(s) + 1) : MatchesAt(s, p, c)}

\* The configured subjects (by index) that occur in the block name.
Occurring(blockName, subjects) ==
    {i \in 1..Len(subjects) : Occurrences(subjects[i], blockName) /= {}}

\* The rule the spec offers: the first configured subject, in configured
\* order, that occurs in the block name, else the default subject.
FirstSubstringRule(blockName, subjects, default_subject) ==
    IF Occurring(blockName, subjects) = {}
    THEN default_subject
    ELSE subjects[Min(Occurring(blockName, subjects))]

OmitsFalsy(args, point, keys) ==
    /\ \A key \in keys :
          /\ key \in DOMAIN point.fields <=> Truthy(args.fields[key].value)
          /\ key \in DOMAIN point.fields => point.fields[key] = args.fields[key]
    /\ \A key \in DOMAIN args.tags :
          /\ key \in DOMAIN point.tags <=> Truthy(args.tags[key])
          /\ key \in DOMAIN point.tags => point.tags[key] = args.tags[key]
    /\ DOMAIN point.fields \subseteq (DOMAIN args.fields) \cup {"value"}
    /\ DOMAIN point.tags \subseteq DOMAIN args.tags
    /\ \A key \in DOMAIN point.tags : point.tags[key] /= Str(<<>>)

\* C6 as the claim states it, of every key of the input fields.
C6_OmitsFalsy ==
    \A i \in 1..Len(tr.calls) :
        OmitsFalsy(tr.calls[i], tr.points[i], DOMAIN tr.calls[i].fields)

\* C6 amended: the point holds an input field, other than one keyed "value",
\* exactly when its value is truthy, and an input tag exactly when its value
\* is truthy (no empty-string tag is emitted); the key "value" is always in
\* the point: it holds the primary value unless a truthy input field of that
\* key replaces it.
C6_OmitsFalsyButValue ==
    \A i \in 1..Len(tr.calls) :
        /\ OmitsFalsy(tr.calls[i], tr.points[i], (DOMAIN tr.calls[i].fields) \ {"value"})
        /\ "value" \in DOMAIN tr.points[i].fields
        /\ tr.points[i].fields["value"] =
              IF "value" \in DOMAIN tr.calls[i].fields
                 /\ Truthy(tr.calls[i].fields["value"].value)
              THEN tr.calls[i].fields["value"]
              ELSE Field("float", tr.calls[i].value)

\* The spec's example: attempt = Integer 0 is left out, a tag is kept.
C6_Witness ==
    /\ tr.hook = "logEvent"
    /\ tr.calls[1].fields["attempt"] = Field("int", Num(0))
    /\ tr.calls[1].tags["lang"] = Str(<<"u">>)
    /\ "attempt" \notin DOMAIN tr.points[1].fields
    /\ "lang" \in DOMAIN tr.points[1].tags

(***************************************************************************)
(* C7. The fields of a subscriber.                                         *)
(***************************************************************************)
\* The attribute of the subscriber behind each key of getSubscriberFields.
AttributeOf(subscriber, key) ==
    CASE key = "recipient" -> subscriber.id
      [] key = "foreign_id" -> subscriber.foreign_id
      [] key = "first_name" -> subscriber.first_name
      [] OTHER -> subscriber.last_name

SubscriberKeys == {"recipient", "foreign_id", "first_name", "last_name"}

\* C7 as the claim states it: the fields getSubscriberFields returns (those
\* handleHandover hands to logEvent) hold a key exactly when the attribute is
\* not empty.
C7_NoFieldForEmptyAttribute ==
    (tr.hook = "passation" /\ tr.calls /= <<>>) =>
        \A key \in SubscriberKeys :
            LET attribute == AttributeOf(tr.input.subscriber, key) IN
            /\ key \in DOMAIN tr.calls[1].fields <=> Truthy(attribute)
            /\ Truthy(attribute) =>
                  tr.calls[1].fields[key] = Field("string", attribute)

\* C7 amended: getSubscriberFields(s) always returns the four keys recipient,
\* foreign_id, first_name and last_name, each of kind string and holding the
\* attribute as it is, empty or not; an empty or null attribute is left out
\* only when logEvent builds the point, which holds a subscriber key exactly
\* when the attribute is not empty.
C7_FourFieldsEmptyOnesDroppedAtEmission ==
    (tr.hook = "passation" /\ tr.calls /= <<>>) =>
        /\ DOMAIN tr.calls[1].fields = SubscriberKeys
        /\ \A key \in SubscriberKeys :
              LET attribute == AttributeOf(tr.input.subscriber, key) IN
              /\ tr.calls[1].fields[key] = Field("string", attribute)
              /\ key \in DOMAIN tr.points[1].fields <=> Truthy(attribute)
              /\ Truthy(attribute) =>
                    tr.points[1].fields[key] = Field("string", attribute)

\* A subscriber with an empty first name and no foreign id: both keys are in
\* the fields and neither is in the point.
C7_Witness ==
    /\ tr.hook = "passation"
    /\ tr.calls /= <<>>
    /\ tr.input.subscriber.first_name = Str(<<>>)
    /\ tr.input.subscriber.foreign_id = Null
    /\ tr.input.subscriber.last_name = Str(<<"x">>)
    /\ {"first_name", "foreign_id"} \subseteq DOMAIN tr.calls[1].fields
    /\ DOMAIN tr.points[1].fields \cap SubscriberKeys \subseteq {"recipient", "last_name"}

(***************************************************************************)
(* C8. The intervention point.                                             *)
(***************************************************************************)
\* Equality of two numbers (fractions).
SameNumber(a, b) == a.k = "number" /\ b.k = "number" /\ a.n * b.d = b.n * a.d

\* 60 x a
SixtyTimes(a) == Rat(60 * a.n, a.d)

\* The time in minutes of ms milliseconds.
Minutes(ms) == Rat(ms, 60 * 1000)

NotAssigned(subscriber) ==
    \/ ~subscriber.present
    \/ ~subscriber.assignedAt.present
    \/ subscriber.assignedAt.time <= 0

C9_OnlyUserStatsAreWritten ==
    tr.hook = "stats" =>
        /\ tr.input.type \notin {NEW_USERS, RETURNING_USERS} =>
              (tr.calls = <<>> /\ tr.points = <<>>)
        /\ ~tr.input.subscriber.present => (tr.calls = <<>> /\ tr.points = <<>>)
        /\ (tr.input.type \in {NEW_USERS, RETURNING_USERS}
            /\ tr.input.subscriber.present) =>
              (Len(tr.points) = 1 /\ tr.points[1].name = "Stats")

\* A stat entry of another kind, with a valid subscriber, that wrote nothing.
C9_Witness ==
    /\ tr.hook = "stats"
    /\ tr.input.type = ALL_MESSAGES
    /\ tr.input.subscriber.present
    /\ tr.input.subscriber.channel.present
    /\ tr.points = <<>>

(***************************************************************************)
(* C10. Every emitted point carries a channel tag, and the tag is          *)
(* "unknown" whenever the channel name is absent.                          *)
(***************************************************************************)
\* The channel name the hook of the harness was given.
ChannelName ==
    CASE tr.hook \in {"sent", "received", "block", "fallback-global", "fallback-local"}
            -> tr.input.event.handlerName
      [] tr.hook \in {"passation", "intervention", "stats"}
            -> SubscriberChannel(tr.input.subscriber)
      [] tr.hook = "plugin" -> tr.input.context.channel
      [] OTHER -> Undefined

\* C10: every emitted point has a channel tag, equal to the channel name of
\* its input when that name is present and to "unknown" when it is absent.
C10_ChannelTag ==
    (tr.pc = "done" /\ tr.hook /= "logEvent") =>
        \A i \in 1..Len(tr.points) :
            /\ "channel" \in DOMAIN tr.points[i].tags
            /\ ~Truthy(ChannelName) => tr.points[i].tags["channel"] = Str(UNKNOWN)

(***************************************************************************)
(* C11. A point carries a subject tag exactly when its event is a block    *)
(* event, and then the tag is the subject getBlockSubject gave the block.  *)
(***************************************************************************)
\* C11: every "Block" point has a subject tag equal to the subject its block
\* name is classified as, whatever the NLP entities of the event, and no
\* point of another hook has a subject tag.
C11_SubjectTag ==
    (tr.pc = "done" /\ tr.hook /= "logEvent") =>
        \A i \in 1..Len(tr.points) :
            IF tr.hook = "block"
            THEN /\ "subject" \in DOMAIN tr.points[i].tags
                 /\ tr.points[i].tags["subject"] =
                        Str(getBlockSubject(tr.input.block.name,
                                            tr.input.settings.subjects,
                                            tr.input.settings.default_subject).value)
            ELSE "subject" \notin DOMAIN tr.points[i].tags

(***************************************************************************)
(* C12. The write is awaited by the calling flow: a handler has not        *)
(* returned to the host while the sink write of its event is not complete. *)
(***************************************************************************)
\* The sink write of a call is complete: acknowledged or failed.
WriteCompleted(c) == calls[c].closed \in {"ok", "failed"}

\* C12: no handler has returned control to the host before the sink write of
\* its event has completed (acknowledged or failed).
C12_WriteIsAwaited ==
    \A c \in 1..Len(calls) :
        calls[c].handler = "returned" => WriteCompleted(c)

(***************************************************************************)
(* C13. The postback of getBlockFields: the payload of the event as it is  *)
(* when it is a string, its serialized text when it is structured, and     *)
(* nothing when there is no event, so that no "Plugin" point has one.      *)
(***************************************************************************)
\* The postback field handed to logEvent by the call i of the harness.
PostbackOf(i) == tr.calls[i].fields["postback"].value

\* C13: the postback of a block or local fallback event is the payload
\* verbatim when textual and its serialized form when structured, and a
\* "Plugin" point, built with no event, never contains a postback field.
C13_Postback ==
    tr.pc = "done" =>
        \A i \in 1..Len(tr.calls) :
            /\ (tr.hook \in {"block", "fallback-local"} /\ tr.input.block.present) =>
                  LET payload == tr.input.event.payload IN
                  /\ payload.k = "string" => PostbackOf(i) = payload
                  /\ payload.k = "object" => PostbackOf(i) = JSONStringify(payload)
            /\ tr.hook = "plugin" =>
                  /\ ~Truthy(PostbackOf(i))
                  /\ "postback" \notin DOMAIN tr.points[i].fields

(***************************************************************************)
(* C14. Every write session is opened on an installed client: no logEvent  *)
(* call passes its settings read while this.client is still undefined.     *)
(***************************************************************************)
\* The call c has run logEvent past its settings read (line 284 onwards).
PastSettings(c) ==
    calls[c].pc \in {"awaitClose", "done"} /\ calls[c].cause /= "settings"

\* C14: in every interleaving of the bootstrap, the settings changes and the
\* event hooks, a logEvent call that gets past its settings read has opened
\* its write session on a constructed connection, never on the undefined
\* client of before the bootstrap.
C14_OpenedOnActive ==
    \A c \in 1..Len(calls) :
        PastSettings(c) =>
            /\ calls[c].cause /= "client"
            /\ calls[c].iWrite \in 1..Len(conns)

(***************************************************************************)
(* C15. Convergence of the hot reload: once every handler that installs a  *)
(* client has run to completion, the installed client has the url and the  *)
(* token of the settings as they were last saved.                          *)
(***************************************************************************)
\* No handler that installs a client is suspended on its settings read.
ReloadsCompleted ==
    /\ boot /= "awaiting"
    /\ \A r \in 1..Len(reloads) : reloads[r].pc = "done"

\* C15: after any interleaving of the url and token change handlers (and the
\* bootstrap) has run to completion, the installed connection has the most
\* recently configured url and token: a handler that resumes late has not
\* put a connection of a stale url or token over a newer one.
C15_ReloadConverges ==
    (ReloadsCompleted /\ client /= 0) =>
        conns[client] = NewInfluxDB(store.url, store.token)

====
